---- MODULE Spec2Model ----
(***************************************************************************)
(* A model of main.py: the three request handlers analyze_list,            *)
(* analyze_file and scrape_url, the result mapper perform_analysis and the *)
(* keyword heuristic extract_keywords.                                     *)
(*                                                                         *)
(* Texts are sequences of one-character strings.  A confidence is a        *)
(* fixed-point number: the integer k stands for k / ConfScale.             *)
(***************************************************************************)
EXTENDS Integers, Sequences, FiniteSets, TLC

VARIABLES
    analyzer,         \* the process-wide classifier (main.py line 37)
    pc,               \* the position of the request's handler
    req,              \* the request: items, uploaded bytes, or the site behind the url
    start,            \* analyze_file: time.time() at entry
    clock,            \* the wall clock, in ticks
    decoded_content,  \* analyze_file: the decoded lines
    paragraphs,       \* scrape_url: the retained paragraph texts
    idx,              \* the number of loop iterations completed
    results,          \* the handler's results list
    response,         \* the handler's return value (valid when pc = "returned")
    calls,            \* history: the arguments of the classifier calls, in call order
    fetches,          \* history: the number of HTTP GETs issued
    kwText,           \* extract_keywords alone: its argument
    kwOut,            \* extract_keywords alone: its return value
    kwPc              \* extract_keywords alone: "ready" or "done"

vars == <<analyzer, pc, req, start, clock, decoded_content, paragraphs, idx,
          results, response, calls, fetches, kwText, kwOut, kwPc>>

reqVars == <<analyzer, pc, req, start, clock, decoded_content, paragraphs, idx,
             results, response, calls, fetches>>

kwVars == <<kwText, kwOut, kwPc>>

(***************************************************************************)
(* Python's str operations, on sequences of characters.                    *)
(***************************************************************************)

\* The characters str.isspace() accepts, among those the model uses.
WS == {" ", "\t"}

Min2(a, b) == IF a <= b THEN a ELSE b

\* s[:n]
Take(s, n) == SubSeq(s, 1, Min2(n, Len(s)))

\* s.strip()
strip(s) ==
    IF \A i \in 1..Len(s) : s[i] \in WS
    THEN <<>>
    ELSE LET a == CHOOSE i \in 1..Len(s) :
                      s[i] \notin WS /\ \A j \in 1..(i - 1) : s[j] \in WS
             b == CHOOSE i \in 1..Len(s) :
                      s[i] \notin WS /\ \A j \in (i + 1)..Len(s) : s[j] \in WS
         IN  SubSeq(s, a, b)

\* s.split(): the maximal runs of non-whitespace characters, left to right.
RECURSIVE SplitFrom(_, _)
SplitFrom(s, pos) ==
    IF \A i \in pos..Len(s) : s[i] \in WS
    THEN <<>>
    ELSE LET a == CHOOSE i \in pos..Len(s) :
                      s[i] \notin WS /\ \A j \in pos..(i - 1) : s[j] \in WS
             b == IF \A i \in a..Len(s) : s[i] \notin WS
                  THEN Len(s) + 1
                  ELSE CHOOSE i \in a..Len(s) :
                           s[i] \in WS /\ \A j \in a..(i - 1) : s[j] \notin WS
         IN  <<SubSeq(s, a, b - 1)>> \o SplitFrom(s, b)

split(s) == SplitFrom(s, 1)

\* "," in line
HasComma(line) == \E i \in 1..Len(line) : line[i] = ","

\* line.split(",")[0]
FirstField(line) ==
    IF ~HasComma(line)
    THEN line
    ELSE LET c == CHOOSE i \in 1..Len(line) :
                      line[i] = "," /\ \A j \in 1..(i - 1) : line[j] # ","
         IN  SubSeq(line, 1, c - 1)

\* ",".join(words)
RECURSIVE join(_)
join(words) ==
    IF words = <<>> THEN <<>>
    ELSE IF Len(words) = 1 THEN words[1]
    ELSE words[1] \o <<",">> \o join(Tail(words))

(***************************************************************************)
(* extract_keywords (main.py lines 41-44)                                  *)
(***************************************************************************)

General == <<"G", "e", "n", "e", "r", "a", "l">>

\* len(w) > 3
MinWordLen == 3

\* words[:3]
MaxKeywords == 3

KeywordWords(text) ==
    LET kept == SelectSeq(split(text), LAMBDA w : Len(w) > MinWordLen)
    IN  [i \in 1..Len(kept) |-> strip(kept[i])]

\* A variant that slices before it filters: [w for w in text.split()[:3] if ...].
extract_keywords_sliceFirst(text) ==
    LET kept  == SelectSeq(Take(split(text), MaxKeywords), LAMBDA w : Len(w) > MinWordLen)
        words == [i \in 1..Len(kept) |-> strip(kept[i])]
    IN  IF words # <<>> THEN join(words) ELSE General

extract_keywords(text) ==
    LET words == KeywordWords(text)
    IN  IF words # <<>> THEN join(Take(words, MaxKeywords)) ELSE General

(***************************************************************************)
(* The classifier (main.py line 37, called at line 50).  It is an external *)
(* model: a deterministic function of its input that may also fail.  An    *)
(* engine labels by the parity of the input's length, draws the confidence *)
(* from the length, and raises on inputs of `limit` characters or more (a  *)
(* token-limit crash).                                                     *)
(***************************************************************************)

\* Confidences are 0/ConfScale .. ConfScale/ConfScale.
ConfScale == 2

\* text[:500]
TEXT_CAP == 500

\* An engine with this limit never raises: no input exceeds TEXT_CAP characters.
NoLimit == TEXT_CAP + 1

Engines ==
    {[flip |-> f, base |-> b, limit |-> NoLimit] : f \in 0..1, b \in 0..ConfScale}
    \cup {[flip |-> 0, base |-> 1, limit |-> l] : l \in {7, TEXT_CAP}}

\* analyzer(safe_text) raises
AnalyzerRaises(safe) == Len(safe) >= analyzer.limit

\* analyzer(safe_text)[0]
AnalyzerResult(safe) ==
    [label |-> IF (Len(safe) + analyzer.flip) % 2 = 0 THEN "POSITIVE" ELSE "NEGATIVE",
     score |-> (Len(safe) + analyzer.base) % (ConfScale + 1)]

(***************************************************************************)
(* perform_analysis (main.py lines 46-63)                                  *)
(***************************************************************************)

safe_text(text) == Take(text, TEXT_CAP)

\* The call at line 50 raises and perform_analysis with it.
perform_analysis_raises(text) == AnalyzerRaises(safe_text(text))

\* A variant that returns the truncated text: "text": safe_text.
perform_analysis_truncated(text) ==
    LET result     == AnalyzerResult(safe_text(text))
        label      == result.label
        confidence == result.score
        score      == IF label = "POSITIVE" THEN confidence ELSE -confidence
    IN  [text       |-> safe_text(text),
         score      |-> score,
         label      |-> label,
         confidence |-> confidence,
         keywords   |-> extract_keywords(text)]

\* A variant that does not negate: "score": confidence.
perform_analysis_unsigned(text) ==
    LET result     == AnalyzerResult(safe_text(text))
        label      == result.label
        confidence == result.score
    IN  [text       |-> text,
         score      |-> confidence,
         label      |-> label,
         confidence |-> confidence,
         keywords   |-> extract_keywords(text)]

perform_analysis(text) ==
    LET result     == AnalyzerResult(safe_text(text))
        label      == result.label
        confidence == result.score
        score      == IF label = "POSITIVE" THEN confidence ELSE -confidence
    IN  [text       |-> text,
         score      |-> score,
         label      |-> label,
         confidence |-> confidence,
         keywords   |-> extract_keywords(text)]

(***************************************************************************)
(* The requests the model draws.                                           *)
(***************************************************************************)

Rep(x, n) == [i \in 1..n |-> x]

SeqsUpTo(S, n) == UNION {[1..k -> S] : k \in 0..n}

NoRequest == [mode |-> "none", items |-> <<>>, content |-> <<>>,
              site |-> [status |-> "none", ps |-> <<>>]]

\* --- list items -----------------------------------------------------------
MaxItems == 2

ItemPool ==
    { <<>>,
      <<" ">>,
      <<"h", "i">>,
      <<"a", "b", "c", "d", " ", "e", "f", "g">>,
      Rep("a", TEXT_CAP - 1),
      Rep("a", TEXT_CAP + 1) }

ListInputs == SeqsUpTo(ItemPool, MaxItems)

\* --- uploaded files ---------------------------------------------------------
\* An upload is held as the byte strings between its line boundaries.  Bytes
\* are ASCII, the two-byte form 0xC3 0xA9, or bytes no UTF-8 text contains.

\* bytes.decode("utf-8") of one character's code point
Chr(cp) ==
    CASE cp = 9   -> "\t"
      [] cp = 32  -> " "
      [] cp = 44  -> ","
      [] cp = 97  -> "a"
      [] cp = 98  -> "b"
      [] cp = 99  -> "c"
      [] cp = 100 -> "d"
      [] cp = 101 -> "e"
      [] cp = 102 -> "f"
      [] cp = 103 -> "g"
      [] cp = 233 -> "U+00E9"
      [] OTHER    -> "U+FFFD"

IsContinuation(b) == b \in 128..191

\* Whether bytes.decode("utf-8") succeeds (one- and two-byte forms).
RECURSIVE Utf8Valid(_)
Utf8Valid(bytes) ==
    IF bytes = <<>> THEN TRUE
    ELSE IF bytes[1] < 128 THEN Utf8Valid(Tail(bytes))
    ELSE IF bytes[1] \in 194..223 /\ Len(bytes) >= 2 /\ IsContinuation(bytes[2])
         THEN Utf8Valid(Tail(Tail(bytes)))
    ELSE FALSE

\* The characters of valid bytes.
RECURSIVE Utf8Chars(_)
Utf8Chars(bytes) ==
    IF bytes = <<>> THEN <<>>
    ELSE IF bytes[1] < 128 THEN <<Chr(bytes[1])>> \o Utf8Chars(Tail(bytes))
    ELSE <<Chr((bytes[1] - 192) * 64 + (bytes[2] - 128))>>
             \o Utf8Chars(Tail(Tail(bytes)))

\* content.decode("utf-8") raises UnicodeDecodeError
DecodeRaises(content) == \E i \in 1..Len(content) : ~Utf8Valid(content[i])

\* content.decode("utf-8").splitlines()
DecodeLines(content) == [i \in 1..Len(content) |-> Utf8Chars(content[i])]

MaxLines == 2

B_empty   == <<>>
B_blank   == <<32, 9>>
B_five    == <<97, 98, 99, 100, 101>>
B_six     == <<97, 98, 99, 100, 101, 102>>
B_padded  == <<32, 97, 98, 99, 100, 101, 9>>
B_csv     == <<97, 98, 99, 100, 101, 102, 103, 44, 97>>
B_csvLow  == <<97, 98, 44, 99, 100, 101, 102, 103, 97>>
B_accent  == <<97, 98, 99, 100, 195, 169>>
B_badByte == <<97, 98, 99, 100, 101, 102, 255>>
B_badTail == <<97, 98, 99, 100, 101, 102, 195>>

LinePool == {B_empty, B_blank, B_five, B_six, B_padded, B_csv, B_csvLow,
             B_accent, B_badByte, B_badTail}

\* The safety cap (main.py line 94)
MAX_ROWS == 500

\* Uploads around the cap: rows of six characters, then a tail.
LongFiles ==
    {Rep(B_six, MAX_ROWS) \o tail : tail \in {<<>>, <<B_blank>>, <<B_csv>>, <<B_six>>}}
    \cup {Rep(B_blank, MAX_ROWS + 1)}

FileInputs == SeqsUpTo(LinePool, MaxLines) \cup LongFiles

\* --- scraped sites ----------------------------------------------------------
\* The site behind a url: how the GET ends and the text of each <p> element
\* of the page, in document order.
MaxParagraphs == 2

\* len(p.text.strip()) > 20
MIN_PARAGRAPH == 20

\* paragraphs[:50]
SCRAPE_CAP == 50

ParagraphPool ==
    { <<>>,
      Rep("b", MIN_PARAGRAPH),
      Rep("a", MIN_PARAGRAPH + 1),
      <<" ">> \o Rep("b", MIN_PARAGRAPH),
      <<"\t">> \o Rep("a", MIN_PARAGRAPH + 2) \o <<" ">>,
      Rep("a", TEXT_CAP + 1) }

LongPages ==
    {Rep(Rep("a", MIN_PARAGRAPH + 1), SCRAPE_CAP + d) \o tail :
        d \in {0, 1}, tail \in {<<>>, <<Rep("b", MIN_PARAGRAPH)>>,
                                <<Rep("a", MIN_PARAGRAPH + 2)>>}}

Sites ==
    {[status |-> "ok", ps |-> ps] :
        ps \in SeqsUpTo(ParagraphPool, MaxParagraphs) \cup LongPages}
    \cup {[status |-> s, ps |-> <<>>] : s \in {"unreachable", "forbidden"}}

(***************************************************************************)
(* The initial state: the module is loaded, no request has arrived.        *)
(***************************************************************************)

\* Python's None
None == <<>>

NoResponse == [pending |-> TRUE]

KwIdle == kwText = <<>> /\ kwOut = <<>> /\ kwPc = "off"

Init ==
    /\ analyzer \in Engines
    /\ pc = "idle"
    /\ req = NoRequest
    /\ start = 0
    /\ clock = 0
    /\ decoded_content = <<>>
    /\ paragraphs = <<>>
    /\ idx = 0
    /\ results = <<>>
    /\ response = NoResponse
    /\ calls = <<>>
    /\ fetches = 0
    /\ KwIdle

Tick == clock' = clock + 1

(***************************************************************************)
(* analyze_list (main.py lines 73-79)                                      *)
(***************************************************************************)

analyze_list_entry ==
    /\ pc = "idle"
    /\ \E items \in ListInputs : req' = [NoRequest EXCEPT !.mode = "list", !.items = items]
    /\ pc' = "list_loop"
    /\ Tick
    /\ UNCHANGED <<analyzer, start, decoded_content, paragraphs, idx, results,
                   response, calls, fetches, kwVars>>

\* One iteration of the comprehension at line 75.
analyze_list_step ==
    /\ pc = "list_loop"
    /\ idx < Len(req.items)
    /\ LET item == req.items[idx + 1]
       IN  /\ calls' = Append(calls, safe_text(item))
           /\ IF perform_analysis_raises(item)
              THEN /\ pc' = "raised"
                   /\ UNCHANGED <<results, idx>>
              ELSE /\ results' = Append(results, perform_analysis(item))
                   /\ idx' = idx + 1
                   /\ pc' = pc
    /\ Tick
    /\ UNCHANGED <<analyzer, req, start, decoded_content, paragraphs, response,
                   fetches, kwVars>>

ListResponse == [total_scanned |-> Len(results), results |-> results]

analyze_list_return ==
    /\ pc = "list_loop"
    /\ idx = Len(req.items)
    /\ response' = ListResponse
    /\ pc' = "returned"
    /\ Tick
    /\ UNCHANGED <<analyzer, req, start, decoded_content, paragraphs, idx, results,
                   calls, fetches, kwVars>>

(***************************************************************************)
(* analyze_file (main.py lines 82-114)                                     *)
(***************************************************************************)

\* len(text.strip()) > 5
MIN_LINE == 5

\* line.split(",")[0] if "," in line else line
FileCandidate(line) == IF HasComma(line) THEN FirstField(line) ELSE line

\* The two conditions of lines 101 and 104.
FileAccepts(line) ==
    /\ strip(line) # <<>>
    /\ Len(strip(FileCandidate(line))) > MIN_LINE

\* A variant that is off by one: len(results) > MAX_ROWS.
FileCapReached_offByOne(res) == Len(res) > MAX_ROWS

\* len(results) >= MAX_ROWS
FileCapReached(res) == Len(res) >= MAX_ROWS

CapWarning == <<"Capped at ", MAX_ROWS, " rows to prevent timeout.">>

\* The conditional expression of line 112.
FileWarning(lines) == IF Len(lines) > MAX_ROWS THEN CapWarning ELSE None

DecodeError == [error |-> "Invalid file encoding. Use UTF-8."]

FileResponse ==
    [total_scanned |-> Len(results),
     results       |-> results,
     meta          |-> [processing_time |-> clock - start,
                        warning         |-> FileWarning(decoded_content)]]

analyze_file_entry ==
    /\ pc = "idle"
    /\ \E content \in FileInputs :
           req' = [NoRequest EXCEPT !.mode = "file", !.content = content]
    /\ start' = clock
    /\ pc' = "file_decode"
    /\ Tick
    /\ UNCHANGED <<analyzer, decoded_content, paragraphs, idx, results, response,
                   calls, fetches, kwVars>>

\* A variant that skips the lines that do not decode instead of failing.
analyze_file_decode_skipping ==
    /\ pc = "file_decode"
    /\ decoded_content' = DecodeLines(SelectSeq(req.content, Utf8Valid))
    /\ pc' = "file_loop"
    /\ Tick
    /\ UNCHANGED <<analyzer, req, start, paragraphs, idx, results, response, calls,
                   fetches, kwVars>>

\* Lines 88-91.
analyze_file_decode ==
    /\ pc = "file_decode"
    /\ IF DecodeRaises(req.content)
       THEN /\ response' = DecodeError
            /\ pc' = "returned"
            /\ UNCHANGED decoded_content
       ELSE /\ decoded_content' = DecodeLines(req.content)
            /\ pc' = "file_loop"
            /\ UNCHANGED response
    /\ Tick
    /\ UNCHANGED <<analyzer, req, start, paragraphs, idx, results, calls, fetches,
                   kwVars>>

\* A variant that classifies every non-blank line and filters afterwards.
analyze_file_step_eager ==
    /\ pc = "file_loop"
    /\ idx < Len(decoded_content)
    /\ ~(Len(results) >= MAX_ROWS)
    /\ LET line == decoded_content[idx + 1]
           text == FileCandidate(line)
       IN  IF strip(line) # <<>>
           THEN /\ calls' = Append(calls, safe_text(text))
                /\ IF perform_analysis_raises(text)
                   THEN /\ pc' = "raised"
                        /\ UNCHANGED <<results, idx>>
                   ELSE /\ results' = IF Len(strip(text)) > MIN_LINE
                                      THEN Append(results, perform_analysis(text))
                                      ELSE results
                        /\ idx' = idx + 1
                        /\ pc' = pc
           ELSE /\ idx' = idx + 1
                /\ UNCHANGED <<calls, results, pc>>
    /\ Tick
    /\ UNCHANGED <<analyzer, req, start, decoded_content, paragraphs, response,
                   fetches, kwVars>>

\* One iteration of the loop at line 96 that does not break.
analyze_file_step ==
    /\ pc = "file_loop"
    /\ idx < Len(decoded_content)
    /\ ~FileCapReached(results)
    /\ LET line == decoded_content[idx + 1]
           text == FileCandidate(line)
       IN  IF FileAccepts(line)
           THEN /\ calls' = Append(calls, safe_text(text))
                /\ IF perform_analysis_raises(text)
                   THEN /\ pc' = "raised"
                        /\ UNCHANGED <<results, idx>>
                   ELSE /\ results' = Append(results, perform_analysis(text))
                        /\ idx' = idx + 1
                        /\ pc' = pc
           ELSE /\ idx' = idx + 1
                /\ UNCHANGED <<calls, results, pc>>
    /\ Tick
    /\ UNCHANGED <<analyzer, req, start, decoded_content, paragraphs, response,
                   fetches, kwVars>>

\* The loop ends (exhausted, or the break of line 99) and lines 107-114 return.
analyze_file_return ==
    /\ pc = "file_loop"
    /\ idx = Len(decoded_content) \/ FileCapReached(results)
    /\ response' = FileResponse
    /\ pc' = "returned"
    /\ Tick
    /\ UNCHANGED <<analyzer, req, start, decoded_content, paragraphs, idx, results,
                   calls, fetches, kwVars>>

(***************************************************************************)
(* scrape_url (main.py lines 117-150)                                      *)
(***************************************************************************)

\* A variant that measures the paragraph before stripping it.
ScrapeParagraphs_unstripped(ps) ==
    LET kept == SelectSeq(ps, LAMBDA t : Len(t) > MIN_PARAGRAPH)
    IN  Take([i \in 1..Len(kept) |-> strip(kept[i])], SCRAPE_CAP)

\* A variant without the cap of line 136.
ScrapeParagraphs_uncapped(ps) ==
    LET stripped == [i \in 1..Len(ps) |-> strip(ps[i])]
    IN  SelectSeq(stripped, LAMBDA t : Len(t) > MIN_PARAGRAPH)

\* Lines 133 and 136: strip, keep the long ones, cap.
ScrapeParagraphs(ps) ==
    LET stripped == [i \in 1..Len(ps) |-> strip(ps[i])]
        kept     == SelectSeq(stripped, LAMBDA t : Len(t) > MIN_PARAGRAPH)
    IN  Take(kept, SCRAPE_CAP)

NoContent ==
    [error |-> "No readable paragraph text found on this URL.", results |-> <<>>]

\* Line 150, with str(e) the name of what was raised.
ScrapeFailed(e) == [error |-> "Scraping failed: " \o e, results |-> <<>>]

ScrapeResponse == [total_scanned |-> Len(results), results |-> results]

scrape_url_entry ==
    /\ pc = "idle"
    /\ \E site \in Sites : req' = [NoRequest EXCEPT !.mode = "scrape", !.site = site]
    /\ pc' = "scrape_fetch"
    /\ Tick
    /\ UNCHANGED <<analyzer, start, decoded_content, paragraphs, idx, results,
                   response, calls, fetches, kwVars>>

\* Lines 127-128: the GET and raise_for_status, inside the try.
scrape_url_fetch ==
    /\ pc = "scrape_fetch"
    /\ fetches' = fetches + 1
    /\ \/ /\ req.site.status = "unreachable"
          /\ response' = ScrapeFailed("ConnectionError")
          /\ pc' = "returned"
       \/ /\ req.site.status = "forbidden"
          /\ response' = ScrapeFailed("HTTPError")
          /\ pc' = "returned"
       \/ /\ req.site.status = "ok"
          /\ pc' = "scrape_extract"
          /\ UNCHANGED response
    /\ Tick
    /\ UNCHANGED <<analyzer, req, start, decoded_content, paragraphs, idx, results,
                   calls, kwVars>>

\* Lines 130-140.
scrape_url_extract ==
    /\ pc = "scrape_extract"
    /\ paragraphs' = ScrapeParagraphs(req.site.ps)
    /\ IF paragraphs' = <<>>
       THEN /\ response' = NoContent
            /\ pc' = "returned"
       ELSE /\ pc' = "scrape_loop"
            /\ UNCHANGED response
    /\ Tick
    /\ UNCHANGED <<analyzer, req, start, decoded_content, idx, results, calls,
                   fetches, kwVars>>

\* A variant whose comprehension runs outside the try.
scrape_url_step_uncaught ==
    /\ pc = "scrape_loop"
    /\ idx < Len(paragraphs)
    /\ LET p == paragraphs[idx + 1]
       IN  /\ calls' = Append(calls, safe_text(p))
           /\ IF perform_analysis_raises(p)
              THEN /\ pc' = "raised"
                   /\ UNCHANGED <<results, idx>>
              ELSE /\ results' = Append(results, perform_analysis(p))
                   /\ idx' = idx + 1
                   /\ pc' = pc
    /\ UNCHANGED response
    /\ Tick
    /\ UNCHANGED <<analyzer, req, start, decoded_content, paragraphs, fetches,
                   kwVars>>

\* One iteration of the comprehension at line 142; line 148 catches what it raises.
scrape_url_step ==
    /\ pc = "scrape_loop"
    /\ idx < Len(paragraphs)
    /\ LET p == paragraphs[idx + 1]
       IN  /\ calls' = Append(calls, safe_text(p))
           /\ IF perform_analysis_raises(p)
              THEN /\ response' = ScrapeFailed("ClassifierError")
                   /\ pc' = "returned"
                   /\ UNCHANGED <<results, idx>>
              ELSE /\ results' = Append(results, perform_analysis(p))
                   /\ idx' = idx + 1
                   /\ UNCHANGED <<response, pc>>
    /\ Tick
    /\ UNCHANGED <<analyzer, req, start, decoded_content, paragraphs, fetches,
                   kwVars>>

scrape_url_return ==
    /\ pc = "scrape_loop"
    /\ idx = Len(paragraphs)
    /\ response' = ScrapeResponse
    /\ pc' = "returned"
    /\ Tick
    /\ UNCHANGED <<analyzer, req, start, decoded_content, paragraphs, idx, results,
                   calls, fetches, kwVars>>

(***************************************************************************)
(* The service: one request, from arrival to its end.                      *)
(***************************************************************************)

Next ==
    \/ analyze_list_entry
    \/ analyze_list_step
    \/ analyze_list_return
    \/ analyze_file_entry
    \/ analyze_file_decode
    \/ analyze_file_step
    \/ analyze_file_return
    \/ scrape_url_entry
    \/ scrape_url_fetch
    \/ scrape_url_extract
    \/ scrape_url_step
    \/ scrape_url_return

Spec == Init /\ [][Next]_vars

(***************************************************************************)
(* extract_keywords alone, on texts built from a pool of words.            *)
(***************************************************************************)

MaxWords == 4

WordPool ==
    { <<"T", "h", "e">>,
      <<"f", "o", "x">>,
      <<"q", "u", "i", "c", "k">>,
      <<"j", "u", "m", "p">>,
      <<"a", ",", "b", "c">>,
      General }

\* How the words are laid out: what leads, what separates, what trails.
Layouts ==
    { [lead |-> <<>>, sep |-> <<" ">>, trail |-> <<>>],
      [lead |-> <<" ">>, sep |-> <<"\t", " ">>, trail |-> <<"\t">>] }

RECURSIVE Spread(_, _)
Spread(words, sep) ==
    IF words = <<>> THEN <<>>
    ELSE IF Len(words) = 1 THEN words[1]
    ELSE words[1] \o sep \o Spread(Tail(words), sep)

KeywordTexts ==
    {l.lead \o Spread(ws, l.sep) \o l.trail :
        ws \in SeqsUpTo(WordPool, MaxWords), l \in Layouts}

KwInit ==
    /\ analyzer = [flip |-> 0, base |-> 0, limit |-> NoLimit]
    /\ pc = "off"
    /\ req = NoRequest
    /\ start = 0
    /\ clock = 0
    /\ decoded_content = <<>>
    /\ paragraphs = <<>>
    /\ idx = 0
    /\ results = <<>>
    /\ response = NoResponse
    /\ calls = <<>>
    /\ fetches = 0
    /\ kwText \in KeywordTexts
    /\ kwOut = <<>>
    /\ kwPc = "ready"

KwExtract ==
    /\ kwPc = "ready"
    /\ kwOut' = extract_keywords(kwText)
    /\ kwPc' = "done"
    /\ UNCHANGED <<kwText, reqVars>>

KwNext == KwExtract

SpecKeywords == KwInit /\ [][KwNext]_vars

(***************************************************************************)
(* What the claims speak of, stated without the handlers' own helpers.     *)
(***************************************************************************)

Lowest(S) == CHOOSE x \in S : \A y \in S : x <= y

\* How many whitespace characters s starts with, and how many it ends with.
LeadingSpace(s) == Cardinality({i \in 1..Len(s) : \A j \in 1..i : s[j] \in WS})

TrailingSpace(s) == Cardinality({i \in 1..Len(s) : \A j \in i..Len(s) : s[j] \in WS})

\* The length of s once trimmed.
TrimmedLen(s) ==
    IF LeadingSpace(s) = Len(s) THEN 0
    ELSE Len(s) - LeadingSpace(s) - TrailingSpace(s)

\* s once trimmed.
Trimmed(s) ==
    IF LeadingSpace(s) = Len(s) THEN <<>>
    ELSE SubSeq(s, LeadingSpace(s) + 1, Len(s) - TrailingSpace(s))

CommasAt(s) == {i \in 1..Len(s) : s[i] = ","}

\* The candidate text of a line: what precedes its first comma, or all of it.
CandidateText(line) ==
    IF CommasAt(line) = {} THEN line
    ELSE SubSeq(line, 1, Lowest(CommasAt(line)) - 1)

LineQualifies(line) ==
    TrimmedLen(line) > 0 /\ TrimmedLen(CandidateText(line)) > 5

\* A byte of 128 or more that is neither the lead of a two-byte form followed
\* by its continuation nor a continuation that follows such a lead.
StrayByte(bytes, k) ==
    /\ bytes[k] >= 128
    /\ ~(/\ bytes[k] \in 194..223
         /\ k < Len(bytes)
         /\ bytes[k + 1] \in 128..191)
    /\ ~(/\ bytes[k] \in 128..191
         /\ k > 1
         /\ bytes[k - 1] \in 194..223)

UploadIsUtf8 ==
    \A i \in 1..Len(req.content) :
        \A k \in 1..Len(req.content[i]) : ~StrayByte(req.content[i], k)

\* The candidate texts of the upload's qualifying lines, in file order.
QualifyingTexts ==
    LET lines == SelectSeq(DecodeLines(req.content), LineQualifies)
    IN  [i \in 1..Len(lines) |-> CandidateText(lines[i])]

\* The trimmed texts of the page's qualifying paragraphs, in document order.
QualifyingParagraphs ==
    LET long == SelectSeq(req.site.ps, LAMBDA p : TrimmedLen(p) > 20)
    IN  [i \in 1..Len(long) |-> Trimmed(long[i])]

FileDone == pc = "returned" /\ req.mode = "file"

ListDone == pc = "returned" /\ req.mode = "list"

ScrapeDone == pc = "returned" /\ req.mode = "scrape"

\* The last classifier call of the request raised.
ClassifierFailed == calls # <<>> /\ AnalyzerRaises(calls[Len(calls)])

Sign(x) == IF x > 0 THEN 1 ELSE IF x < 0 THEN -1 ELSE 0

Abs(x) == IF x < 0 THEN -x ELSE x

(***************************************************************************)
(* C1  analyze_file's meta.warning is non-null iff the number of           *)
(* qualifying lines exceeds 500.                                           *)
(***************************************************************************)
C1_WarningIffOverCap ==
    (FileDone /\ UploadIsUtf8) =>
        /\ "meta" \in DOMAIN response
        /\ (response.meta.warning # None) <=> (Len(QualifyingTexts) > 500)

(***************************************************************************)
(* C2  For an upload that decodes, with q qualifying lines, analyze_file   *)
(* returns total_scanned = min(q, 500) and results holding, in file order, *)
(* the analyses of the first min(q, 500) qualifying lines; later           *)
(* qualifying lines are neither classified nor counted.                    *)
(***************************************************************************)
C2_FileResults ==
    (FileDone /\ UploadIsUtf8) =>
        LET texts == QualifyingTexts
            n     == Min2(Len(texts), 500)
        IN  /\ "total_scanned" \in DOMAIN response
            /\ response.total_scanned = n
            /\ response.results = [i \in 1..n |-> perform_analysis(texts[i])]
            /\ Len(calls) = n

\* An upload with more than 500 qualifying lines was answered.
C2_Witness ==
    /\ FileDone
    /\ UploadIsUtf8
    /\ Len(QualifyingTexts) > 500
    /\ response.total_scanned = 500

(***************************************************************************)
(* C3  For a list of n items analyze_list returns n results, with          *)
(* total_scanned = n and the i-th result's text the i-th item unchanged.   *)
(***************************************************************************)
C3_ListResults ==
    ListDone =>
        /\ "total_scanned" \in DOMAIN response
        /\ response.total_scanned = Len(req.items)
        /\ Len(response.results) = Len(req.items)
        /\ \A i \in 1..Len(req.items) : response.results[i].text = req.items[i]

\* A list of two items, one longer than the classifier's input cap, was answered.
C3_Witness ==
    /\ ListDone
    /\ Len(req.items) = 2
    /\ \E i \in 1..2 : Len(req.items[i]) > TEXT_CAP

(***************************************************************************)
(* C4  Every result of perform_analysis has abs(score) = confidence and    *)
(* sign(score) = +1 iff its label is POSITIVE.                             *)
(***************************************************************************)
C4_SignOfScore ==
    \A i \in 1..Len(results) :
        /\ (Sign(results[i].score) = 1) <=> (results[i].label = "POSITIVE")
        /\ Abs(results[i].score) = results[i].confidence

\* C4 as amended: abs(score) = confidence always; the sign follows the label
\* whenever the confidence is above 0, and at confidence 0 the score is 0.
C4_SignOfNonzeroScore ==
    \A i \in 1..Len(results) :
        /\ Abs(results[i].score) = results[i].confidence
        /\ results[i].confidence \in 0..ConfScale
        /\ results[i].label \in {"POSITIVE", "NEGATIVE"}
        /\ results[i].confidence > 0 =>
               Sign(results[i].score) = (IF results[i].label = "POSITIVE" THEN 1 ELSE -1)
        /\ results[i].confidence = 0 => results[i].score = 0

\* Results of both labels with confidence above 0, and one of confidence 0.
C4_Witness ==
    /\ \E i \in 1..Len(results) :
           results[i].label = "NEGATIVE" /\ results[i].confidence > 0
    /\ \E i \in 1..Len(results) :
           results[i].label = "POSITIVE" /\ results[i].confidence = 0

(***************************************************************************)
(* C5  When the uploaded bytes are not valid UTF-8, analyze_file answers   *)
(* exactly {error: "Invalid file encoding. Use UTF-8."} and the classifier *)
(* is never invoked for that request.                                      *)
(***************************************************************************)
C5_DecodeFailure ==
    (req.mode = "file" /\ ~UploadIsUtf8) =>
        /\ calls = <<>>
        /\ results = <<>>
        /\ pc \in {"file_decode", "returned"}
        /\ pc = "returned" =>
               response = [error |-> "Invalid file encoding. Use UTF-8."]

\* An upload whose first line qualifies and whose second line holds a stray
\* byte was answered.
C5_Witness ==
    /\ FileDone
    /\ Len(req.content) = 2
    /\ req.content[1] = B_six
    /\ \E k \in 1..Len(req.content[2]) : StrayByte(req.content[2], k)
    /\ DOMAIN response = {"error"}

(***************************************************************************)
(* C6  When the fetch succeeds and no paragraph's trimmed text is longer   *)
(* than 20, scrape_url answers exactly {error: "No readable paragraph text *)
(* found on this URL.", results: []} and never invokes the classifier.     *)
(***************************************************************************)
C6_NoContent ==
    (req.mode = "scrape" /\ req.site.status = "ok" /\ QualifyingParagraphs = <<>>) =>
        /\ calls = <<>>
        /\ pc = "returned" =>
               response = [error   |-> "No readable paragraph text found on this URL.",
                           results |-> <<>>]

\* A fetched page with paragraphs, none of them long enough, was answered.
C6_Witness ==
    /\ ScrapeDone
    /\ req.site.status = "ok"
    /\ Len(req.site.ps) = 2
    /\ \E i \in 1..2 : Len(req.site.ps[i]) > 20
    /\ QualifyingParagraphs = <<>>
    /\ DOMAIN response = {"error", "results"}

(***************************************************************************)
(* C7  For a fetched page with q >= 1 qualifying paragraphs scrape_url     *)
(* returns total_scanned = min(q, 50) and results holding, in document     *)
(* order, the analyses of the first min(q, 50) qualifying paragraphs; the  *)
(* classifier is invoked at most 50 times per scrape request.              *)
(***************************************************************************)
C7_ScrapeResults ==
    /\ req.mode = "scrape" => Len(calls) <= 50
    /\ (ScrapeDone /\ req.site.status = "ok" /\ QualifyingParagraphs # <<>>) =>
           LET ps == QualifyingParagraphs
               n  == Min2(Len(ps), 50)
           IN  /\ "total_scanned" \in DOMAIN response
               /\ response.total_scanned = n
               /\ response.results = [i \in 1..n |-> perform_analysis(ps[i])]

\* C7 as amended: the same when no classifier call of the request fails; when
\* one fails the answer is the "Scraping failed" payload, with no total_scanned.
C7_ScrapeResultsUnlessFailure ==
    /\ req.mode = "scrape" => Len(calls) <= 50
    /\ (ScrapeDone /\ req.site.status = "ok" /\ QualifyingParagraphs # <<>>) =>
           LET ps == QualifyingParagraphs
               n  == Min2(Len(ps), 50)
           IN  IF \E i \in 1..n : AnalyzerRaises(Take(ps[i], TEXT_CAP))
               THEN response = [error   |-> "Scraping failed: ClassifierError",
                                results |-> <<>>]
               ELSE response = [total_scanned |-> n,
                                results       |-> [i \in 1..n |-> perform_analysis(ps[i])]]

\* A page with more than 50 qualifying paragraphs was answered with results.
C7_Witness ==
    /\ ScrapeDone
    /\ Len(QualifyingParagraphs) > 50
    /\ "total_scanned" \in DOMAIN response
    /\ Len(calls) = 50

(***************************************************************************)
(* C9  A classifier failure is never converted into a structured error     *)
(* payload: in each of the three modes it propagates out of the handler;   *)
(* only fetch and decode failures become an error field.                   *)
(***************************************************************************)
C9_ClassifierFailurePropagates ==
    /\ ClassifierFailed => (pc = "raised" /\ response = NoResponse)
    /\ (pc = "returned" /\ "error" \in DOMAIN response) => ~ClassifierFailed

\* C9 as amended: a classifier failure propagates out of analyze_list and
\* analyze_file, and scrape_url converts it into its "Scraping failed" payload;
\* analyze_file's only error payload is the decode failure's.
C9_ClassifierFailureByMode ==
    /\ (ClassifierFailed /\ req.mode \in {"list", "file"}) =>
           (pc = "raised" /\ response = NoResponse)
    /\ (ClassifierFailed /\ req.mode = "scrape") =>
           /\ pc = "returned"
           /\ response = [error   |-> "Scraping failed: ClassifierError",
                          results |-> <<>>]
    /\ (pc = "returned" /\ req.mode \in {"list", "file"} /\ "error" \in DOMAIN response) =>
           (req.mode = "file" /\ ~UploadIsUtf8 /\ calls = <<>>)
    /\ pc = "raised" => ClassifierFailed

\* The classifier failed on the second paragraph of a page.
C9_Witness ==
    req.mode = "scrape" /\ ClassifierFailed /\ Len(calls) = 2

(***************************************************************************)
(* C10  Within one request the classifier is invoked sequentially, in      *)
(* input order, once per accepted unit and never for a rejected or capped  *)
(* unit: the k-th call is on the k-th accepted unit and starts only after  *)
(* call k-1 has returned; after a terminal failure (decode, fetch, fetch   *)
(* status) no fetch or classifier call is made, and nothing is retried.    *)
(***************************************************************************)

\* The units the request accepts, in input order.
AcceptedUnits ==
    CASE req.mode = "list"   -> req.items
      [] req.mode = "file"   -> IF UploadIsUtf8 THEN Take(QualifyingTexts, 500) ELSE <<>>
      [] req.mode = "scrape" -> IF req.site.status = "ok"
                                THEN Take(QualifyingParagraphs, 50)
                                ELSE <<>>
      [] OTHER               -> <<>>

Ended == pc \in {"returned", "raised"}

\* The request ended in a decode, fetch or fetch status failure.
TerminalFailure ==
    /\ pc = "returned"
    /\ \/ req.mode = "file" /\ ~UploadIsUtf8
       \/ req.mode = "scrape" /\ req.site.status # "ok"

\* Every call but the last has returned a result, and a call without one raised
\* and ended the request; a request issues at most one GET.
C10_OneAtATime ==
    /\ Len(results) <= Len(calls)
    /\ Len(calls) <= Len(results) + 1
    /\ Len(calls) = Len(results) + 1 => (ClassifierFailed /\ Ended)
    /\ fetches <= (IF req.mode = "scrape" THEN 1 ELSE 0)

\* At the request's end the calls were on the accepted units, in order, up to
\* the first that raised; after a terminal failure there were none.
C10_InOrder ==
    Ended =>
        LET units == AcceptedUnits
        IN  /\ Len(calls) <= Len(units)
            /\ calls = [k \in 1..Len(calls) |-> Take(units[k], TEXT_CAP)]
            /\ ~ClassifierFailed => Len(calls) = Len(units)
            /\ TerminalFailure => (calls = <<>> /\ fetches <= 1)

\* A step adds at most one call, at the end of the history and only once the
\* call before it has returned; an ended request makes no call and no fetch.
C10_Step ==
    /\ \/ calls' = calls
       \/ /\ Len(calls') = Len(calls) + 1
          /\ SubSeq(calls', 1, Len(calls)) = calls
          /\ Len(results) = Len(calls)
    /\ Ended => (calls' = calls /\ fetches' = fetches /\ pc' = pc)

TokenStarts(s) ==
    {a \in 1..Len(s) : s[a] \notin WS /\ (a = 1 \/ s[a - 1] \in WS)}

TokenEnd(s, a) ==
    Lowest({b \in a..Len(s) : b = Len(s) \/ s[b + 1] \in WS})

LongTokenStarts(s) == {a \in TokenStarts(s) : TokenEnd(s, a) - a + 1 > 3}

\* The k-th token of s longer than 3.
LongToken(s, k) ==
    LET a == CHOOSE x \in LongTokenStarts(s) :
                 Cardinality({y \in LongTokenStarts(s) : y < x}) = k - 1
    IN  SubSeq(s, a, TokenEnd(s, a))

CommaJoinOfFirstThree(s) ==
    LET n == Min2(Cardinality(LongTokenStarts(s)), 3)
    IN  CASE n = 1 -> LongToken(s, 1)
          [] n = 2 -> LongToken(s, 1) \o <<",">> \o LongToken(s, 2)
          [] n = 3 -> LongToken(s, 1) \o <<",">> \o LongToken(s, 2)
                          \o <<",">> \o LongToken(s, 3)

C8_Keywords ==
    kwPc = "done" =>
        /\ LongTokenStarts(kwText) # {} => kwOut = CommaJoinOfFirstThree(kwText)
        /\ (kwOut = General) <=> (LongTokenStarts(kwText) = {})

\* C8 as amended: "General" is returned whenever no token is longer than 3, and
\* otherwise only as the join of a text whose one such token is "General".
C8_KeywordsOrFallback ==
    kwPc = "done" =>
        /\ LongTokenStarts(kwText) # {} => kwOut = CommaJoinOfFirstThree(kwText)
        /\ LongTokenStarts(kwText) = {} => kwOut = General
        /\ (kwOut = General /\ LongTokenStarts(kwText) # {}) =>
               /\ Cardinality(LongTokenStarts(kwText)) = 1
               /\ LongToken(kwText, 1) = General

\* The keywords of a text with four tokens longer than 3 were extracted.
C8_Witness ==
    /\ kwPc = "done"
    /\ Cardinality(LongTokenStarts(kwText)) = 4
    /\ kwOut # General

====
